---- MODULE Spec2Model ----
(***************************************************************************)
(* A model of the gosnowflake connection (connection.go): the statement    *)
(* execution protocol of snowflakeConn (exec, ExecContext, QueryContext,   *)
(* Ping, BeginTx, PrepareContext, Close), its session state, the           *)
(* multi-statement child loop and the row cursor QueryContext returns,     *)
(* used by one or by two goroutines.                                       *)
(*                                                                         *)
(* Strings the code converts (status codes, row values, parameter names    *)
(* and values, comma-joined id lists) are sequences of one-character       *)
(* strings; strings the code only copies are TLA+ strings.                 *)
(***************************************************************************)
EXTENDS Integers, Sequences, FiniteSets, TLC

VARIABLES
    script,           \* which response vocabulary the transport double serves
    cursor,           \* per goroutine: the row cursor it is iterating, or Nil
    cfg,              \* sc.cfg: the session (*Config) or Nil
    rest,             \* sc.rest: the transport (*snowflakeRestful) or Nil
    SequenceCounter,  \* sc.SequenceCounter
    QueryID,          \* sc.QueryID
    SQLState,         \* sc.SQLState
    stmts,            \* prepared statement handles (snowflakeStmt) handed out
    pc,               \* per goroutine: position in the call it is running
    call,             \* per goroutine: the call's inputs
    local,            \* per goroutine: the call's local variables
    ret,              \* per goroutine: what the call returned
    issued,           \* the values line 70 handed out as sequence numbers, in order
    posts,            \* sequence ids of the requests handed to FuncPostQuery, in order
    closes,           \* number of FuncCloseSession calls made
    hbStops,          \* number of HeartBeat.stop() calls made
    panicked          \* a goroutine hit a run-time panic: the process is gone

vars == <<script, cursor, cfg, rest, SequenceCounter, QueryID, SQLState, stmts,
          pc, call, local, ret, issued, posts, closes, hbStops, panicked>>

(***************************************************************************)
(* Bounds                                                                  *)
(***************************************************************************)
MaxSeq == 2           \* statements issued on the connection per run
MaxChildren == 2      \* children listed by a multi-statement response
MaxChunks == 2        \* chunks listed by a query response
MaxAfter == 2         \* next() calls made on a cursor after it ended

Goroutines == {1, 2}

(***************************************************************************)
(* Program constants                                                       *)
(***************************************************************************)
statementTypeIDMulti == 4096
statementTypeIDDml == 12288
statementTypeIDInsert == statementTypeIDDml + 256
statementTypeIDUpdate == statementTypeIDDml + 512
statementTypeIDDelete == statementTypeIDDml + 768
statementTypeIDMerge == statementTypeIDDml + 1024
statementTypeIDMultiTableInsert == statementTypeIDDml + 1280
statementTypeIDDdl == 24576
statementTypeIDCreate == statementTypeIDDdl + 257

multiStatementColumn == "multiple statement execution"

sessionClientSessionKeepAlive ==
    <<"c","l","i","e","n","t","_","s","e","s","s","i","o","n","_",
      "k","e","e","p","_","a","l","i","v","e">>

Nil == [nil |-> TRUE]

(***************************************************************************)
(* strconv and strings                                                     *)
(***************************************************************************)
Digits == <<"0","1","2","3","4","5","6","7","8","9">>

IsDigit(c) == \E d \in 1..10 : Digits[d] = c

DigitVal(c) == (CHOOSE d \in 1..10 : Digits[d] = c) - 1

RECURSIVE DigitsVal(_, _)
DigitsVal(s, acc) ==
    IF s = <<>> THEN acc
    ELSE DigitsVal(Tail(s), acc * 10 + DigitVal(Head(s)))

\* strconv.Atoi / strconv.ParseInt(s, 10, 64): optional sign, then digits
Atoi(s) ==
    LET signed == s # <<>> /\ Head(s) \in {"+", "-"}
        body == IF signed THEN Tail(s) ELSE s
    IN  IF body = <<>> \/ \E i \in 1..Len(body) : ~IsDigit(body[i])
        THEN [ok |-> FALSE, val |-> 0]
        ELSE [ok |-> TRUE,
              val |-> IF signed /\ Head(s) = "-"
                      THEN 0 - DigitsVal(body, 0) ELSE DigitsVal(body, 0)]

RECURSIVE FormatNat(_)
FormatNat(n) ==
    IF n < 10 THEN <<Digits[n + 1]>>
    ELSE FormatNat(n \div 10) \o <<Digits[(n % 10) + 1]>>

\* strconv.FormatInt(v, 10)
FormatInt(n) == IF n < 0 THEN <<"-">> \o FormatNat(0 - n) ELSE FormatNat(n)

\* strconv.FormatFloat(v, 'g', -1, 64) of a float that holds a small integer
FormatFloat(n) == FormatInt(n)

\* strconv.FormatBool
FormatBool(b) == IF b THEN <<"t","r","u","e">> ELSE <<"f","a","l","s","e">>

Upper == <<"A","B","C","D","E","F","G","H","I","J","K","L","M",
           "N","O","P","Q","R","S","T","U","V","W","X","Y","Z">>
Lower == <<"a","b","c","d","e","f","g","h","i","j","k","l","m",
           "n","o","p","q","r","s","t","u","v","w","x","y","z">>

LowerChar(c) ==
    IF \E i \in 1..26 : Upper[i] = c
    THEN Lower[CHOOSE i \in 1..26 : Upper[i] = c]
    ELSE c

\* strings.ToLower
ToLower(s) == [i \in 1..Len(s) |-> LowerChar(s[i])]

\* strings.Split(s, ","): always at least one (possibly empty) field
RECURSIVE SplitComma(_, _, _)
SplitComma(s, cur, acc) ==
    IF s = <<>> THEN Append(acc, cur)
    ELSE IF Head(s) = "," THEN SplitComma(Tail(s), <<>>, Append(acc, cur))
    ELSE SplitComma(Tail(s), Append(cur, Head(s)), acc)

Split(s) == SplitComma(s, <<>>, <<>>)

RECURSIVE JoinComma(_)
JoinComma(fields) ==
    IF fields = <<>> THEN <<>>
    ELSE IF Len(fields) = 1 THEN fields[1]
    ELSE fields[1] \o <<",">> \o JoinComma(Tail(fields))

(***************************************************************************)
(* Error values                                                            *)
(***************************************************************************)
NoErr == [kind |-> "nil"]
ErrBadConn == [kind |-> "ErrBadConn"]
ErrTransport == [kind |-> "transport", what |-> "post timed out"]
ErrGet == [kind |-> "transport", what |-> "get failed"]
ErrDecode == [kind |-> "json", what |-> "undecodable body"]
ErrCast == [kind |-> "cast"]
ErrBind == [kind |-> "bind"]
NumError(s) == [kind |-> "NumError", input |-> s]

SnowflakeError(number, sqlState, message, queryID) ==
    [kind |-> "SnowflakeError", Number |-> number, SQLState |-> sqlState,
     Message |-> message, QueryID |-> queryID]

ErrNoReadOnlyTransaction == "ErrNoReadOnlyTransaction"
ErrNoDefaultTransactionIsolationLevel == "ErrNoDefaultTransactionIsolationLevel"
SQLStateFeatureNotSupported == "SQLStateFeatureNotSupported"

(***************************************************************************)
(* Wire responses (execResponse / execResponseData)                        *)
(***************************************************************************)
Col(name) == [Name |-> name]

Names(db, schema, role, warehouse) ==
    [Database |-> db, Schema |-> schema, Role |-> role, Warehouse |-> warehouse]

Names1 == Names("db1", "sc1", "r1", "wh1")
Names2 == Names("db2", "sc2", "r2", "wh2")

ExecData(sqlState, queryID, names, parameters, typeID, rowType, rowSet, ids, types) ==
    [SQLState |-> sqlState, QueryID |-> queryID,
     FinalDatabaseName |-> names.Database, FinalSchemaName |-> names.Schema,
     FinalRoleName |-> names.Role, FinalWarehouseName |-> names.Warehouse,
     Parameters |-> parameters, StatementTypeID |-> typeID,
     RowType |-> rowType, RowSet |-> rowSet, Chunks |-> <<>>, Total |-> Len(rowSet),
     ResultIDs |-> ids, ResultTypes |-> types]

ExecResponse(success, code, message, data) ==
    [Success |-> success, Code |-> code, Message |-> message, Data |-> data]

Outcome(data, err) == [data |-> data, err |-> err]

\* the zero value of execResponseData, as left by a response without "data"
EmptyData == ExecData("", "", Names("", "", "", ""), <<>>, 0, <<>>, <<>>, <<>>, <<>>)

OneCol == <<Col("number of rows inserted")>>
TwoCols == <<Col("number of rows inserted"), Col("number of rows updated")>>
MultiCol == <<Col(multiStatementColumn)>>

\* nameValueParameter lists returned in a response
\* an interface{} value: its dynamic type and the value under that type
ParamValue(type, b, n, str) == [type |-> type, b |-> b, n |-> n, str |-> str]
BoolParam(b) == ParamValue("bool", b, 0, <<>>)
Int64Param(n) == ParamValue("int64", FALSE, n, <<>>)
Float64Param(n) == ParamValue("float64", FALSE, n, <<>>)
StringParam(str) == ParamValue("string", FALSE, 0, str)
NullParam == ParamValue("null", FALSE, 0, <<>>)
Param(name, value) == [Name |-> name, Value |-> value]

KeepAliveUpper ==
    <<"C","L","I","E","N","T","_","S","E","S","S","I","O","N","_",
      "K","E","E","P","_","A","L","I","V","E">>
TimeoutName == <<"T","i","m","e","o","u","t">>

ParameterLists ==
    { <<>>,
      <<Param(KeepAliveUpper, BoolParam(TRUE))>>,
      <<Param(KeepAliveUpper, BoolParam(FALSE)),
        Param(TimeoutName, Float64Param(40))>>,
      <<Param(TimeoutName, Int64Param(0 - 3)),
        Param(KeepAliveUpper, StringParam(<<"T","R","U","E">>))>>,
      <<Param(TimeoutName, StringParam(<<"7">>)),
        Param(TimeoutName, NullParam)>> }

(***************************************************************************)
(* Result chunks held by the server, keyed by the chunk's URL              *)
(***************************************************************************)
ChunkURLs == { "c0", "c1", "c2", "bad" }

\* "bad" is a chunk whose download fails
ChunkStore(url) ==
    CASE url = "c0" -> [rows |-> <<>>, fails |-> FALSE]
      [] url = "c1" -> [rows |-> << <<<<"3">>>>, <<<<"4">>>> >>, fails |-> FALSE]
      [] url = "c2" -> [rows |-> << <<<<"5">>>> >>, fails |-> FALSE]
      [] OTHER -> [rows |-> << <<<<"9">>>> >>, fails |-> TRUE]

RECURSIVE ChunkRows(_)
ChunkRows(chunks) ==
    IF chunks = <<>> THEN <<>>
    ELSE ChunkStore(Head(chunks)).rows \o ChunkRows(Tail(chunks))

(***************************************************************************)
(* Child results held by the server, keyed by child query id               *)
(***************************************************************************)
ChildIds == { <<"a">>, <<"b">>, <<"c">>, <<"f">>, <<"g">>, <<"u">> }

ChildStore(id) ==
    CASE id = <<"a">> ->
           Outcome(ExecResponse(TRUE, <<"0">>, "",
               ExecData("00000", "qa", Names1, <<>>, statementTypeIDInsert,
                        OneCol, << <<<<"1">>>> >>, <<>>, <<>>)), NoErr)
      [] id = <<"b">> ->
           Outcome(ExecResponse(TRUE, <<"0">>, "",
               ExecData("00000", "qb", Names1, <<>>, statementTypeIDUpdate,
                        TwoCols, << <<<<"2">>, <<"3">>>> >>, <<>>, <<>>)), NoErr)
      [] id = <<"c">> ->
           Outcome(ExecResponse(TRUE, <<"0">>, "",
               [ExecData("00000", "qc", Names1, <<>>, statementTypeIDMulti,
                         <<Col("x")>>, << <<<<"7">>>>, <<<<"8">>>> >>, <<>>, <<>>)
                EXCEPT !.Chunks = <<"c2">>, !.Total = 3]), NoErr)
      [] id = <<"f">> ->
           Outcome(ExecResponse(FALSE, <<"1","2">>, "child failed",
               [EmptyData EXCEPT !.SQLState = "42000", !.QueryID = "qf"]), NoErr)
      [] id = <<"g">> -> Outcome(Nil, ErrGet)
      [] OTHER -> Outcome(Nil, ErrDecode)

RECURSIVE SeqsUpTo(_, _)
SeqsUpTo(S, n) ==
    IF n = 0 THEN { <<>> }
    ELSE LET shorter == SeqsUpTo(S, n - 1)
         IN  shorter \cup { Append(q, x) : q \in shorter, x \in S }

ChildLists == SeqsUpTo(ChildIds, MaxChildren)

TypesFor(ids) == JoinComma([i \in 1..Len(ids) |-> <<"S">>])

MultiData(ids, types) ==
    ExecData("00000", "q1", Names1, <<>>, statementTypeIDMulti, MultiCol,
             << <<<<"M">>>> >>, JoinComma(ids), types)

(***************************************************************************)
(* What FuncPostQuery may hand back: (data, err)                           *)
(***************************************************************************)
Ok(data) == Outcome(ExecResponse(TRUE, <<"0">>, "", data), NoErr)

BaseData ==
    ExecData("00000", "q1", Names1, <<>>, statementTypeIDInsert,
             OneCol, << <<<<"2">>>> >>, <<>>, <<>>)

SwitchData(parameters) ==
    ExecData("01000", "q2", Names2, parameters, statementTypeIDCreate,
             <<Col("status")>>, << <<<<"done">>>> >>, <<>>, <<>>)

RowTypes == { <<>>, OneCol, TwoCols, MultiCol }

RowSets == { <<>>, << <<<<"2">>>> >>, << <<<<"1">>, <<"3">>>> >>, << <<<<"x">>>> >> }

DmlIds == { statementTypeIDDml, statementTypeIDMultiTableInsert }

OtherIds == { 0, statementTypeIDMulti, statementTypeIDDml - 1,
              statementTypeIDMultiTableInsert + 1, statementTypeIDCreate }

ClassifyOutcomes ==
    { Ok([BaseData EXCEPT !.StatementTypeID = id, !.RowType = rt,
                          !.RowSet = rs, !.Total = Len(rs)]) :
        id \in DmlIds, rt \in RowTypes, rs \in RowSets }
    \cup
    { Ok([BaseData EXCEPT !.StatementTypeID = id, !.RowType = rt]) :
        id \in OtherIds, rt \in RowTypes }

MultiOutcomes ==
    { Ok(MultiData(ids, TypesFor(ids))) : ids \in ChildLists }
    \cup { Ok(MultiData(<<<<"a">>, <<"b">>>>, <<"S">>)),
           Ok(MultiData(<<<<"a">>>>, <<>>)) }

SessionOutcomes == { Ok(BaseData) } \cup { Ok(SwitchData(ps)) : ps \in ParameterLists }

Codes == { <<>>, <<"1","2">>, <<"-","5">>, <<"x">> }

FailureOutcomes ==
    { Outcome(ExecResponse(FALSE, code, d[1],
                  [EmptyData EXCEPT !.SQLState = d[2], !.QueryID = d[3]]), NoErr) :
        code \in Codes,
        d \in { <<"syntax error", "42000", "q3">>, <<"not found", "02000", "q4">> } }
    \cup
    { Outcome(ExecResponse(TRUE, code, "", BaseData), NoErr) : code \in { <<>>, <<"x">> } }

TransportOutcomes ==
    { Outcome(Nil, ErrTransport) }
    \cup
    { Outcome(ExecResponse(FALSE, code, "",
                  [EmptyData EXCEPT !.SQLState = "08000", !.QueryID = "q5"]),
              ErrTransport) : code \in { <<>>, <<"1","2">>, <<"x">> } }

FullOutcomes ==
    ClassifyOutcomes \cup MultiOutcomes \cup SessionOutcomes
        \cup FailureOutcomes \cup TransportOutcomes

SharedOutcomes ==
    { Ok(BaseData),
      Ok(SwitchData(<<Param(KeepAliveUpper, BoolParam(TRUE))>>)),
      Outcome(ExecResponse(FALSE, <<"1","2">>, "syntax error",
                  [EmptyData EXCEPT !.SQLState = "42000", !.QueryID = "q3"]), NoErr),
      Outcome(Nil, ErrTransport),
      Ok(MultiData(<<<<"a">>>>, <<"S">>)) }

InlineSets == { <<>>, << <<<<"1">>>> >>, << <<<<"1">>>>, <<<<"2">>>> >> }

ChunkLists == SeqsUpTo(ChunkURLs, MaxChunks)

\* a query result: inline rows, chunk descriptors and the total the server declares
QueryData(inline, chunks) ==
    [ExecData("00000", "q6", Names1, <<>>, statementTypeIDMulti, <<Col("c")>>,
              inline, <<>>, <<>>)
     EXCEPT !.Chunks = chunks, !.Total = Len(inline) + Len(ChunkRows(chunks))]

CursorOutcomes ==
    { Ok(QueryData(inline, chunks)) : inline \in InlineSets, chunks \in ChunkLists }
    \cup { Ok(MultiData(ids, TypesFor(ids))) :
             ids \in SeqsUpTo({ <<"a">>, <<"c">> }, MaxChildren) }

PostOutcomes(s) ==
    CASE s = "shared" -> SharedOutcomes
      [] s = "cursor" -> CursorOutcomes
      [] OTHER -> FullOutcomes

(***************************************************************************)
(* Call inputs                                                             *)
(***************************************************************************)
Ctx(multi, async, internal) ==
    [MultiStatementCount |-> multi, AsyncMode |-> async, IsInternal |-> internal]

CtxValue(type, b, n) == [type |-> type, b |-> b, n |-> n]

Background == Ctx(Nil, Nil, Nil)

FullContexts ==
    { Background,
      Ctx(CtxValue("int", FALSE, 2), CtxValue("bool", TRUE, 0), CtxValue("bool", TRUE, 0)),
      Ctx(CtxValue("int", FALSE, 2), Nil, Nil),
      Ctx(Nil, CtxValue("bool", FALSE, 0), CtxValue("bool", TRUE, 0)),
      Ctx(Nil, CtxValue("int", FALSE, 1), Nil),
      Ctx(Nil, Nil, CtxValue("int", FALSE, 1)) }

Contexts(s) == IF s = "full" THEN FullContexts ELSE { Background }

Bind(k, n, mode) == [k |-> k, n |-> n, mode |-> mode]

FullArgs ==
    { <<>>,
      <<Bind("int64", 5, "")>>,
      <<Bind("typeMarker", 0, "TIMESTAMP_LTZ"), Bind("time", 0, "")>>,
      <<Bind("int64", 5, ""), Bind("unsupported", 0, "")>>,
      <<Bind("time", 7, ""), Bind("typeMarker", 0, "TIMESTAMP_LTZ"),
        Bind("int64", 5, ""), Bind("time", 7, "")>> }

Args(s) == IF s = "full" THEN FullArgs ELSE { <<>> }

Users(s) == IF s = "shared" THEN Goroutines ELSE { 1 }

(***************************************************************************)
(* Pure functions of connection.go                                         *)
(***************************************************************************)
isDml(v) == statementTypeIDDml <= v /\ v <= statementTypeIDMultiTableInsert

\* RowType[0] is read only when the id is the sentinel (short-circuit &&)
isMultiStmt(data) ==
    IF data.StatementTypeID # statementTypeIDMulti THEN [panic |-> FALSE, val |-> FALSE]
    ELSE IF data.RowType = <<>> THEN [panic |-> TRUE, val |-> FALSE]
    ELSE [panic |-> FALSE, val |-> data.RowType[1].Name = multiStatementColumn]

updateRowsFrom_firstValue(data, i, count) ==
    IF i > Len(data.RowType) THEN [panic |-> FALSE, count |-> count, err |-> NoErr]
    ELSE IF data.RowSet = <<>> \/ i > Len(data.RowSet[1])
         THEN [panic |-> TRUE, count |-> 0, err |-> NoErr]
    ELSE LET v == Atoi(data.RowSet[1][i])
         IN  IF ~v.ok
             THEN [panic |-> FALSE, count |-> 0 - 1, err |-> NumError(data.RowSet[1][i])]
             ELSE [panic |-> FALSE, count |-> count + v.val, err |-> NoErr]

\* lines 516-526: the loop runs over the columns of the schema and reads the
\* first row at each of them
RECURSIVE updateRowsFrom(_, _, _)
updateRowsFrom(data, i, count) ==
    IF i > Len(data.RowType) THEN [panic |-> FALSE, count |-> count, err |-> NoErr]
    ELSE IF data.RowSet = <<>> \/ i > Len(data.RowSet[1])
         THEN [panic |-> TRUE, count |-> 0, err |-> NoErr]
    ELSE LET v == Atoi(data.RowSet[1][i])
         IN  IF ~v.ok
             THEN [panic |-> FALSE, count |-> 0 - 1, err |-> NumError(data.RowSet[1][i])]
             ELSE updateRowsFrom(data, i + 1, count + v.val)

updateRows(data) == updateRowsFrom(data, 1, 0)

childResult(id, typ) == [id |-> id, typ |-> typ]

getChildResults(IDs, types) ==
    IF IDs = <<>> THEN [panic |-> FALSE, res |-> <<>>]
    ELSE LET queryIDs == Split(IDs)
             resultTypes == Split(types)
         IN  IF Len(resultTypes) < Len(queryIDs) THEN [panic |-> TRUE, res |-> <<>>]
             ELSE [panic |-> FALSE,
                   res |-> [i \in 1..Len(queryIDs) |->
                               childResult(queryIDs[i], resultTypes[i])]]

ParamToString(value) ==
    CASE value.type = "int64" -> FormatInt(value.n)
      [] value.type = "float64" -> FormatFloat(value.n)
      [] value.type = "bool" -> FormatBool(value.b)
      [] value.type = "string" -> value.str
      [] OTHER -> <<>>

SetParam(params, name, v) ==
    [k \in (DOMAIN params) \cup {name} |-> IF k = name THEN v ELSE params[k]]

RECURSIVE populateSessionParameters_keepsCase(_, _)
populateSessionParameters_keepsCase(params, parameters) ==
    IF parameters = <<>> THEN params
    ELSE populateSessionParameters_keepsCase(
             SetParam(params, Head(parameters).Name,
                      ParamToString(Head(parameters).Value)),
             Tail(parameters))

RECURSIVE populateSessionParameters(_, _)
populateSessionParameters(params, parameters) ==
    IF parameters = <<>> THEN params
    ELSE populateSessionParameters(
             SetParam(params, ToLower(Head(parameters).Name),
                      ParamToString(Head(parameters).Value)),
             Tail(parameters))

isClientSessionKeepAliveEnabled(params) ==
    IF sessionClientSessionKeepAlive \notin DOMAIN params THEN FALSE
    ELSE params[sessionClientSessionKeepAlive] = <<"t","r","u","e">>

CtxBool(val) ==
    IF val = Nil THEN [val |-> FALSE, err |-> NoErr]
    ELSE IF val.type # "bool" THEN [val |-> FALSE, err |-> ErrCast]
    ELSE [val |-> val.b, err |-> NoErr]

isInternal(ctx) == CtxBool(ctx.IsInternal)

isAsyncMode(ctx) == CtxBool(ctx.AsyncMode)

\* binding helpers of the request builder
goTypeToSnowflake(v, tsmode) ==
    CASE v.k = "typeMarker" -> "CHANGE_TYPE"
      [] v.k = "int64" -> "FIXED"
      [] v.k = "time" -> tsmode
      [] v.k = "array" -> "ARRAY"
      [] OTHER -> "TEXT"

dataTypeMode(v) == [mode |-> v.mode, err |-> NoErr]

valueToString(v, tsmode) ==
    CASE v.k = "int64" -> [val |-> FormatInt(v.n), err |-> NoErr]
      [] v.k = "time" -> [val |-> FormatInt(v.n), err |-> NoErr]
      [] OTHER -> [val |-> <<>>, err |-> ErrBind]

execBindParameter(type, value) == [Type |-> type, Value |-> value]

RECURSIVE bindFrom_forgetsMode(_, _, _, _)
bindFrom_forgetsMode(bindings, i, tsmode, acc) ==
    IF i > Len(bindings) THEN [err |-> NoErr, slots |-> acc]
    ELSE LET t == goTypeToSnowflake(bindings[i], tsmode)
         IN  IF t = "CHANGE_TYPE"
             THEN LET m == dataTypeMode(bindings[i])
                  IN  IF m.err # NoErr THEN [err |-> m.err, slots |-> acc]
                      ELSE bindFrom_forgetsMode(bindings, i + 1, tsmode, acc)
             ELSE IF t = "ARRAY"
             THEN bindFrom_forgetsMode(bindings, i + 1, tsmode,
                           Append(acc, execBindParameter("ARRAY", <<"[","]">>)))
             ELSE LET v1 == valueToString(bindings[i], tsmode)
                  IN  IF v1.err # NoErr THEN [err |-> v1.err, slots |-> acc]
                      ELSE bindFrom_forgetsMode(bindings, i + 1, tsmode,
                                    Append(acc, execBindParameter(t, v1.val)))

\* lines 87-116: the loop over the bound values; slots holds the entries in the
\* order idx numbers them
RECURSIVE bindFrom(_, _, _, _)
bindFrom(bindings, i, tsmode, acc) ==
    IF i > Len(bindings) THEN [err |-> NoErr, slots |-> acc]
    ELSE LET t == goTypeToSnowflake(bindings[i], tsmode)
         IN  IF t = "CHANGE_TYPE"
             THEN LET m == dataTypeMode(bindings[i])
                  IN  IF m.err # NoErr THEN [err |-> m.err, slots |-> acc]
                      ELSE bindFrom(bindings, i + 1, m.mode, acc)
             ELSE IF t = "ARRAY"
             THEN bindFrom(bindings, i + 1, tsmode,
                           Append(acc, execBindParameter("ARRAY", <<"[","]">>)))
             ELSE LET v1 == valueToString(bindings[i], tsmode)
                  IN  IF v1.err # NoErr THEN [err |-> v1.err, slots |-> acc]
                      ELSE bindFrom(bindings, i + 1, tsmode,
                                    Append(acc, execBindParameter(t, v1.val)))

\* req.Bindings: slot idx is stored under the key strconv.Itoa(idx)
BindingsMap(slots) ==
    [k \in { FormatInt(j) : j \in 1..Len(slots) } |-> slots[Atoi(k).val]]

execRequest_alwaysParameters(query, noResult, internal, counter, ctx, slots, hasBindings) ==
    [SQLText |-> query, AsyncExec |-> noResult, IsInternal |-> internal,
     SequenceID |-> counter,
     Parameters |-> [MULTI_STATEMENT_COUNT |-> ctx.MultiStatementCount],
     Bindings |-> IF hasBindings THEN BindingsMap(slots) ELSE Nil]

\* lines 72-84 and 89-90: the request exec marshals
execRequest(query, noResult, internal, counter, ctx, slots, hasBindings) ==
    [SQLText |-> query, AsyncExec |-> noResult, IsInternal |-> internal,
     SequenceID |-> counter,
     Parameters |-> IF ctx.MultiStatementCount # Nil
                    THEN [MULTI_STATEMENT_COUNT |-> ctx.MultiStatementCount]
                    ELSE Nil,
     Bindings |-> IF hasBindings THEN BindingsMap(slots) ELSE Nil]

AtomicAddUint64_stale(counter, delta) == counter

\* sync/atomic.AddUint64: adds and returns the new value, indivisibly
AtomicAddUint64(counter, delta) == counter + delta

snowflakeResult(affectedRows, queryID) ==
    [kind |-> "snowflakeResult", affectedRows |-> affectedRows,
     insertID |-> 0 - 1, queryID |-> queryID]

ResultNoRows == [kind |-> "ResultNoRows"]

snowflakeTx == [kind |-> "snowflakeTx"]

snowflakeStmt(query) == [kind |-> "snowflakeStmt", query |-> query]

populateChunkDownloader_noChunks(data) ==
    [ChunkMetas |-> <<>>, Total |-> data.Total, TotalRowIndex |-> 0 - 1,
     CellCount |-> Len(data.RowType), RowSet |-> data.RowSet, NextDownloader |-> 0]

\* lines 628-648 (and the same literal at 361-378)
populateChunkDownloader(data) ==
    [ChunkMetas |-> data.Chunks, Total |-> data.Total, TotalRowIndex |-> 0 - 1,
     CellCount |-> Len(data.RowType), RowSet |-> data.RowSet, NextDownloader |-> 0]

snowflakeRows(rowType, queryID, heap, head) ==
    [kind |-> "snowflakeRows", RowType |-> rowType, queryID |-> queryID,
     heap |-> heap, ChunkDownloader |-> head]

(***************************************************************************)
(* State                                                                   *)
(***************************************************************************)
Config(names, params) ==
    [Database |-> names.Database, Schema |-> names.Schema, Role |-> names.Role,
     Warehouse |-> names.Warehouse, Params |-> params]

snowflakeRestful(heartBeat) == [HeartBeat |-> heartBeat]

NoCall == [kind |-> "none", via |-> "conn", ReadOnly |-> FALSE, Isolation |-> 0]

Call(kind, via, readOnly, isolation) ==
    [kind |-> kind, via |-> via, ReadOnly |-> readOnly, Isolation |-> isolation]

NoLocal ==
    [ctx |-> Nil, args |-> <<>>, noResult |-> FALSE, isInternal |-> FALSE,
     counter |-> 0, req |-> Nil, nPosts |-> 0, outcome |-> Nil,
     data |-> Nil, err |-> NoErr, path |-> "", childResults |-> <<>>,
     fetched |-> <<>>, updatedRows |-> 0, rows |-> Nil, heap |-> <<>>,
     nextChunkDownloader |-> 0, firstResultSet |-> FALSE]

NoRet == Nil

Returned(val, err) == [val |-> val, err |-> err]

\* the connection as Open leaves it: the heartbeat runs iff keep-alive was negotiated
OpenParams(keepAlive) ==
    IF keepAlive
    THEN SetParam(<<>>, sessionClientSessionKeepAlive, FormatBool(TRUE))
    ELSE <<>>

InitWith(s) ==
    /\ script = s
    /\ cursor = [t \in Goroutines |-> Nil]
    /\ \E keepAlive \in BOOLEAN :
        /\ cfg = Config(Names("db0", "sc0", "r0", "wh0"), OpenParams(keepAlive))
        /\ rest = snowflakeRestful(IF keepAlive THEN "running" ELSE "nil")
    /\ SequenceCounter = 0
    /\ QueryID = ""
    /\ SQLState = ""
    /\ stmts = {}
    /\ pc = [t \in Goroutines |-> "idle"]
    /\ call = [t \in Goroutines |-> NoCall]
    /\ local = [t \in Goroutines |-> NoLocal]
    /\ ret = [t \in Goroutines |-> NoRet]
    /\ issued = <<>>
    /\ posts = <<>>
    /\ closes = 0
    /\ hbStops = 0
    /\ panicked = FALSE

Init == InitWith("full") \/ InitWith("shared") \/ InitWith("cursor")

(***************************************************************************)
(* Steps shared by the actions                                             *)
(***************************************************************************)
Running == ~panicked

\* statements already numbered plus those admitted and about to be numbered
Issued == SequenceCounter + Cardinality({ u \in Goroutines : pc[u] = "exec" })

CanIssue == Issued < MaxSeq

Goto(t, p) == pc' = [pc EXCEPT ![t] = p]

Return(t, val, err) ==
    /\ pc' = [pc EXCEPT ![t] = "ret"]
    /\ ret' = [ret EXCEPT ![t] = Returned(val, err)]

Panic(t) ==
    /\ pc' = [pc EXCEPT ![t] = "panic"]
    /\ panicked' = TRUE

SetLocal(t, l) == local' = [local EXCEPT ![t] = l]

Conn == <<cfg, rest, SequenceCounter, QueryID, SQLState>>

Session == <<cfg, QueryID, SQLState>>

Wire == <<issued, posts, closes, hbStops>>

(***************************************************************************)
(* ExecContext / QueryContext / Ping: lines 233-245, 327-340, 435-448      *)
(***************************************************************************)
Prologue(t, c, ctx, args) ==
    /\ Running
    /\ t \in Users(script)
    /\ pc[t] = "idle"
    /\ CanIssue
    /\ c.via = "stmt" => stmts # {}
    /\ call' = [call EXCEPT ![t] = c]
    /\ IF rest = Nil
       THEN Return(t, Nil, ErrBadConn) /\ UNCHANGED local
       ELSE IF isInternal(ctx).err # NoErr
       THEN Return(t, Nil, isInternal(ctx).err) /\ UNCHANGED local
       ELSE IF isAsyncMode(ctx).err # NoErr
       THEN Return(t, Nil, isAsyncMode(ctx).err) /\ UNCHANGED local
       ELSE /\ Goto(t, "exec")
            /\ SetLocal(t, [NoLocal EXCEPT !.ctx = ctx, !.args = args,
                                           !.noResult = isAsyncMode(ctx).val,
                                           !.isInternal = isInternal(ctx).val])
            /\ UNCHANGED ret
    /\ UNCHANGED <<script, cursor, Conn, stmts, Wire, panicked>>

ExecContext(t) ==
    \E via \in {"conn", "stmt"}, ctx \in Contexts(script), args \in Args(script) :
        Prologue(t, Call("ExecContext", via, FALSE, 0), ctx, args)

QueryContext(t) ==
    \E via \in {"conn", "stmt"}, ctx \in Contexts(script), args \in Args(script) :
        Prologue(t, Call("QueryContext", via, FALSE, 0), ctx, args)

Ping(t) ==
    \E ctx \in Contexts(script) :
        Prologue(t, Call("Ping", "conn", FALSE, 0), ctx, <<>>)

(***************************************************************************)
(* BeginTx: lines 173-192                                                  *)
(***************************************************************************)
beginTxOptions_readOnlyOnly(readOnly, isolation) ==
    IF readOnly
    THEN SnowflakeError(ErrNoReadOnlyTransaction, SQLStateFeatureNotSupported,
                        "read-only", "")
    ELSE NoErr

\* lines 176-189: the two option checks, made before anything else
beginTxOptions(readOnly, isolation) ==
    IF readOnly
    THEN SnowflakeError(ErrNoReadOnlyTransaction, SQLStateFeatureNotSupported,
                        "read-only", "")
    ELSE IF isolation # 0
    THEN SnowflakeError(ErrNoDefaultTransactionIsolationLevel,
                        SQLStateFeatureNotSupported, "isolation", "")
    ELSE NoErr

\* sql.LevelDefault is 0; 2 and 6 are LevelReadCommitted and LevelSerializable
IsolationLevels == {0, 2, 6}

BeginTx(t) ==
    \E readOnly \in BOOLEAN, isolation \in IsolationLevels :
        /\ Running
        /\ t \in Users(script)
        /\ pc[t] = "idle"
        /\ CanIssue
        /\ call' = [call EXCEPT ![t] = Call("BeginTx", "conn", readOnly, isolation)]
        /\ IF beginTxOptions(readOnly, isolation) # NoErr
           THEN Return(t, Nil, beginTxOptions(readOnly, isolation))
                /\ UNCHANGED local
           ELSE IF rest = Nil
           THEN Return(t, Nil, ErrBadConn) /\ UNCHANGED local
           ELSE /\ Goto(t, "exec")
                /\ SetLocal(t, [NoLocal EXCEPT !.ctx = Background])
                /\ UNCHANGED ret
        /\ UNCHANGED <<script, cursor, Conn, stmts, Wire, panicked>>

(***************************************************************************)
(* PrepareContext: lines 217-227                                           *)
(***************************************************************************)
PrepareContext(t) ==
    /\ Running
    /\ t \in Users(script)
    /\ pc[t] = "idle"
    /\ call' = [call EXCEPT ![t] = Call("PrepareContext", "conn", FALSE, 0)]
    /\ IF rest = Nil
       THEN Return(t, Nil, ErrBadConn) /\ UNCHANGED stmts
       ELSE Return(t, snowflakeStmt("Q"), NoErr) /\ stmts' = stmts \cup {"Q"}
    /\ UNCHANGED <<script, cursor, Conn, local, Wire, panicked>>

(***************************************************************************)
(* exec: lines 62-167                                                      *)
(***************************************************************************)
SQLText(c) ==
    CASE c.kind = "Ping" -> "SELECT 1"
      [] c.kind = "BeginTx" -> "BEGIN"
      [] OTHER -> "Q"

\* line 70
execIncrement(t) ==
    /\ Running
    /\ pc[t] = "exec"
    /\ SequenceCounter' = AtomicAddUint64(SequenceCounter, 1)
    /\ SetLocal(t, [local[t] EXCEPT !.counter = AtomicAddUint64(SequenceCounter, 1)])
    /\ issued' = Append(issued, AtomicAddUint64(SequenceCounter, 1))
    /\ Goto(t, "build")
    /\ UNCHANGED <<script, cursor, cfg, rest, QueryID, SQLState, stmts, call, ret,
                   posts, closes, hbStops, panicked>>

\* lines 72-135: build the request and hand it to FuncPostQuery
execPost(t) ==
    /\ Running
    /\ pc[t] = "build"
    /\ LET l == local[t]
           b == bindFrom(l.args, 1, "TIMESTAMP_NTZ", <<>>)
       IN  IF b.err # NoErr
           THEN /\ SetLocal(t, [l EXCEPT !.data = Nil, !.err = b.err,
                                         !.ctx = Nil, !.args = <<>>])
                /\ Goto(t, "execret")
                /\ UNCHANGED <<posts, panicked>>
           ELSE IF cfg = Nil \/ rest = Nil
           THEN Panic(t) /\ UNCHANGED <<local, posts>>
           ELSE /\ SetLocal(t, [l EXCEPT
                        !.req = execRequest(SQLText(call[t]), l.noResult, l.isInternal,
                                            l.counter, l.ctx, b.slots, Len(l.args) > 0),
                        !.nPosts = l.nPosts + 1, !.ctx = Nil, !.args = <<>>])
                /\ posts' = Append(posts, l.counter)
                /\ Goto(t, "posted")
                /\ UNCHANGED panicked
    /\ UNCHANGED <<script, cursor, Conn, stmts, call, ret, issued, closes, hbStops>>

execClassify_zeroCode(o) ==
    IF o.err # NoErr THEN [commit |-> FALSE, data |-> o.data, err |-> o.err]
    ELSE LET data == o.data
             parsed == Atoi(data.Code)
             code == IF data.Code # <<>> THEN parsed.val ELSE 0
         IN  IF data.Code # <<>> /\ ~parsed.ok
             THEN [commit |-> FALSE, data |-> data, err |-> NumError(data.Code)]
             ELSE IF ~data.Success
             THEN [commit |-> FALSE, data |-> Nil,
                   err |-> SnowflakeError(code, data.Data.SQLState, data.Message,
                                          data.Data.QueryID)]
             ELSE [commit |-> TRUE, data |-> data, err |-> NoErr]

\* lines 139-157 applied to what FuncPostQuery returned
execClassify(o) ==
    IF o.err # NoErr THEN [commit |-> FALSE, data |-> o.data, err |-> o.err]
    ELSE LET data == o.data
             parsed == Atoi(data.Code)
             code == IF data.Code # <<>> THEN parsed.val ELSE 0 - 1
         IN  IF data.Code # <<>> /\ ~parsed.ok
             THEN [commit |-> FALSE, data |-> data, err |-> NumError(data.Code)]
             ELSE IF ~data.Success
             THEN [commit |-> FALSE, data |-> Nil,
                   err |-> SnowflakeError(code, data.Data.SQLState, data.Message,
                                          data.Data.QueryID)]
             ELSE [commit |-> TRUE, data |-> data, err |-> NoErr]

\* lines 135-157: FuncPostQuery returns
execReceive(t) ==
    /\ Running
    /\ pc[t] = "posted"
    /\ \E o \in PostOutcomes(script) :
        LET r == execClassify(o)
        IN  /\ SetLocal(t, [local[t] EXCEPT !.req = Nil, !.outcome = o,
                                            !.data = r.data, !.err = r.err])
            /\ Goto(t, IF r.commit THEN "commit" ELSE "execret")
    /\ UNCHANGED <<script, cursor, Conn, stmts, call, ret, Wire, panicked>>

\* lines 159-164
execCommit(t) ==
    /\ Running
    /\ pc[t] = "commit"
    /\ IF cfg = Nil
       THEN Panic(t) /\ UNCHANGED <<cfg, QueryID, SQLState>>
       ELSE LET d == local[t].data.Data
            IN  /\ cfg' = [cfg EXCEPT !.Database = d.FinalDatabaseName,
                                      !.Schema = d.FinalSchemaName,
                                      !.Role = d.FinalRoleName,
                                      !.Warehouse = d.FinalWarehouseName]
                /\ QueryID' = d.QueryID
                /\ SQLState' = d.SQLState
                /\ Goto(t, "populate")
                /\ UNCHANGED panicked
    /\ UNCHANGED <<script, cursor, rest, SequenceCounter, stmts, call, local, ret, Wire>>

\* lines 165-166
execPopulate(t) ==
    /\ Running
    /\ pc[t] = "populate"
    /\ IF local[t].data.Data.Parameters # <<>> /\ cfg = Nil
       THEN Panic(t) /\ UNCHANGED cfg
       ELSE /\ cfg' = IF local[t].data.Data.Parameters = <<>> THEN cfg
                      ELSE [cfg EXCEPT !.Params =
                               populateSessionParameters(cfg.Params,
                                   local[t].data.Data.Parameters)]
            /\ Goto(t, "execret")
            /\ UNCHANGED panicked
    /\ UNCHANGED <<script, cursor, rest, SequenceCounter, QueryID, SQLState, stmts,
                   call, local, ret, Wire>>

(***************************************************************************)
(* ExecContext after exec: lines 246-325                                   *)
(***************************************************************************)
\* lines 247-261 (and 342-356, 299-311): the inner "code, err :=" shadows err, so
\* once Atoi succeeded the err whose Error() is called is nil
wrapError(data, err) ==
    IF data = Nil THEN [panic |-> FALSE, err |-> err]
    ELSE IF ~Atoi(data.Code).ok THEN [panic |-> FALSE, err |-> NumError(data.Code)]
    ELSE [panic |-> TRUE, err |-> NoErr]

\* lines 263-277 and 323-324: which path the response takes
classify(data) ==
    IF isDml(data.StatementTypeID) THEN [panic |-> FALSE, path |-> "dml"]
    ELSE IF isMultiStmt(data).panic THEN [panic |-> TRUE, path |-> ""]
    ELSE IF isMultiStmt(data).val THEN [panic |-> FALSE, path |-> "multi"]
    ELSE [panic |-> FALSE, path |-> "ddl"]

ExecContextDispatch(t) ==
    /\ Running
    /\ pc[t] = "execret"
    /\ call[t].kind = "ExecContext"
    /\ LET l == local[t]
           w == wrapError(l.data, l.err)
       IN  IF l.err # NoErr
           THEN IF w.panic THEN Panic(t) /\ UNCHANGED <<local, ret>>
                ELSE Return(t, Nil, w.err) /\ UNCHANGED <<local, panicked>>
           ELSE
           LET d == l.data.Data
               c == classify(d)
               u == updateRows(d)
               cr == getChildResults(d.ResultIDs, d.ResultTypes)
           IN  IF c.panic THEN Panic(t) /\ UNCHANGED <<local, ret>>
               ELSE IF c.path = "dml"
               THEN /\ SetLocal(t, [l EXCEPT !.path = "dml"])
                    /\ IF u.panic THEN Panic(t) /\ UNCHANGED ret
                       ELSE IF u.err # NoErr
                       THEN Return(t, Nil, u.err) /\ UNCHANGED panicked
                       ELSE Return(t, snowflakeResult(u.count, QueryID), NoErr)
                            /\ UNCHANGED panicked
               ELSE IF c.path = "multi"
               THEN IF cr.panic
                    THEN Panic(t) /\ SetLocal(t, [l EXCEPT !.path = "multi"])
                         /\ UNCHANGED ret
                    ELSE IF cr.res = <<>>
                    THEN /\ SetLocal(t, [l EXCEPT !.path = "multi"])
                         /\ Return(t, snowflakeResult(0, QueryID), NoErr)
                         /\ UNCHANGED panicked
                    ELSE /\ SetLocal(t, [l EXCEPT !.path = "multi",
                                                  !.childResults = cr.res])
                         /\ Goto(t, "children")
                         /\ UNCHANGED <<ret, panicked>>
               ELSE /\ SetLocal(t, [l EXCEPT !.path = "ddl"])
                    /\ Return(t, ResultNoRows, NoErr)
                    /\ UNCHANGED panicked
    /\ UNCHANGED <<script, cursor, Conn, stmts, call, Wire>>

addRows_lastChild(updatedRows, count) == count

\* line 313: updatedRows += count
addRows(updatedRows, count) == updatedRows + count

\* lines 278-322: one iteration of the loop over the children, and the return
\* after the last one
ExecContextChild(t) ==
    /\ Running
    /\ pc[t] = "children"
    /\ call[t].kind = "ExecContext"
    /\ LET l == local[t]
           child == l.childResults[Len(l.fetched) + 1]
           last == Len(l.fetched) + 1 = Len(l.childResults)
           o == ChildStore(child.id)
           l1 == [l EXCEPT !.fetched = Append(l.fetched, child.id)]
       IN  IF cfg = Nil \/ rest = Nil
           THEN Panic(t) /\ UNCHANGED <<local, ret>>
           ELSE IF o.err # NoErr
           THEN \* line 283 reads childData.Code, and childData is nil
                Panic(t) /\ SetLocal(t, l1) /\ UNCHANGED ret
           ELSE
           LET childData == o.data
               u == updateRows(childData.Data)
               w == wrapError(childData, u.err)
               total == IF isDml(childData.Data.StatementTypeID)
                        THEN addRows(l.updatedRows, u.count) ELSE l.updatedRows
           IN  IF isDml(childData.Data.StatementTypeID) /\ u.panic
               THEN Panic(t) /\ SetLocal(t, l1) /\ UNCHANGED ret
               ELSE IF isDml(childData.Data.StatementTypeID) /\ u.err # NoErr
               THEN IF w.panic THEN Panic(t) /\ SetLocal(t, l1) /\ UNCHANGED ret
                    ELSE Return(t, Nil, w.err) /\ SetLocal(t, l1) /\ UNCHANGED panicked
               ELSE /\ SetLocal(t, [l1 EXCEPT !.updatedRows = total])
                    /\ IF last
                       THEN Return(t, snowflakeResult(total, QueryID), NoErr)
                       ELSE Goto(t, "children") /\ UNCHANGED ret
                    /\ UNCHANGED panicked
    /\ UNCHANGED <<script, cursor, Conn, stmts, call, Wire>>

(***************************************************************************)
(* QueryContext after exec: lines 341-419                                  *)
(***************************************************************************)
\* the chunk downloaders a call allocates live in l.heap; a downloader is named
\* by its index there and 0 is the nil pointer
RowsOf(l) == snowflakeRows(l.rows.RowType, l.rows.queryID, l.heap, l.rows.ChunkDownloader)

QueryContextDispatch(t) ==
    /\ Running
    /\ pc[t] = "execret"
    /\ call[t].kind = "QueryContext"
    /\ LET l == local[t]
           w == wrapError(l.data, l.err)
       IN  IF l.err # NoErr
           THEN IF w.panic THEN Panic(t) /\ UNCHANGED <<local, ret>>
                ELSE Return(t, Nil, w.err) /\ UNCHANGED <<local, panicked>>
           ELSE
           LET d == l.data.Data
               m == isMultiStmt(d)
               cr == getChildResults(d.ResultIDs, d.ResultTypes)
               l1 == [l EXCEPT !.heap = <<populateChunkDownloader(d)>>,
                               !.rows = [RowType |-> d.RowType, queryID |-> QueryID,
                                         ChunkDownloader |-> 1]]
           IN  IF m.panic \/ (m.val /\ cr.panic)
               THEN Panic(t) /\ SetLocal(t, l1) /\ UNCHANGED ret
               ELSE IF m.val /\ cr.res # <<>>
               THEN /\ SetLocal(t, [l1 EXCEPT !.path = "multi", !.childResults = cr.res])
                    /\ Goto(t, "children")
                    /\ UNCHANGED <<ret, panicked>>
               ELSE /\ SetLocal(t, [l1 EXCEPT !.path = IF m.val THEN "multi" ELSE "rows"])
                    /\ Return(t, RowsOf(l1), NoErr)
                    /\ UNCHANGED panicked
    /\ UNCHANGED <<script, cursor, Conn, stmts, call, Wire>>

linkChild_neverFirst(l, childData) ==
    LET new == Len(l.heap) + 1
        node == populateChunkDownloader(childData.Data)
    IN  IF ~l.firstResultSet
        THEN [l EXCEPT !.heap = Append(l.heap, node),
                       !.rows = [l.rows EXCEPT !.ChunkDownloader = new],
                       !.nextChunkDownloader = new]
        ELSE [l EXCEPT !.heap = Append([l.heap EXCEPT
                                   ![l.nextChunkDownloader].NextDownloader = new], node),
                       !.nextChunkDownloader = new]

\* lines 405-413: link the downloader of the child just fetched
linkChild(l, childData) ==
    LET new == Len(l.heap) + 1
        node == populateChunkDownloader(childData.Data)
    IN  IF ~l.firstResultSet
        THEN [l EXCEPT !.heap = Append(l.heap, node),
                       !.rows = [l.rows EXCEPT !.ChunkDownloader = new],
                       !.nextChunkDownloader = new,
                       !.firstResultSet = TRUE]
        ELSE [l EXCEPT !.heap = Append([l.heap EXCEPT
                                   ![l.nextChunkDownloader].NextDownloader = new], node),
                       !.nextChunkDownloader = new]

\* lines 387-418: one iteration of the loop over the children, and the return
\* after the last one
QueryContextChild(t) ==
    /\ Running
    /\ pc[t] = "children"
    /\ call[t].kind = "QueryContext"
    /\ LET l == local[t]
           child == l.childResults[Len(l.fetched) + 1]
           last == Len(l.fetched) + 1 = Len(l.childResults)
           o == ChildStore(child.id)
           l1 == [l EXCEPT !.fetched = Append(l.fetched, child.id)]
           w == wrapError(o.data, o.err)
           l2 == linkChild(l1, o.data)
       IN  IF cfg = Nil \/ rest = Nil
           THEN Panic(t) /\ UNCHANGED <<local, ret>>
           ELSE IF o.err # NoErr
           THEN IF w.panic THEN Panic(t) /\ SetLocal(t, l1) /\ UNCHANGED ret
                ELSE Return(t, Nil, w.err) /\ SetLocal(t, l1) /\ UNCHANGED panicked
           ELSE /\ SetLocal(t, l2)
                /\ IF last THEN Return(t, RowsOf(l2), NoErr)
                   ELSE Goto(t, "children") /\ UNCHANGED ret
                /\ UNCHANGED panicked
    /\ UNCHANGED <<script, cursor, Conn, stmts, call, Wire>>

(***************************************************************************)
(* Ping and BeginTx after exec: lines 449-450, 192-196                     *)
(***************************************************************************)
PingReturn(t) ==
    /\ Running
    /\ pc[t] = "execret"
    /\ call[t].kind = "Ping"
    /\ Return(t, Nil, local[t].err)
    /\ UNCHANGED <<script, cursor, Conn, stmts, call, local, Wire, panicked>>

BeginTxReturn(t) ==
    /\ Running
    /\ pc[t] = "execret"
    /\ call[t].kind = "BeginTx"
    /\ IF local[t].err # NoErr
       THEN Return(t, Nil, local[t].err)
       ELSE Return(t, snowflakeTx, NoErr)
    /\ UNCHANGED <<script, cursor, Conn, stmts, call, local, Wire, panicked>>

(***************************************************************************)
(* Close: lines 199-215, 509-514                                           *)
(***************************************************************************)
cleanup_keepsRest ==
    /\ rest' = rest
    /\ cfg' = Nil

\* lines 199-203
cleanup ==
    /\ rest' = Nil
    /\ cfg' = Nil

\* heartbeat.stop(): ends the heartbeat task through the heartbeat's own fields,
\* so a nil *heartbeat cannot be stopped
heartbeatStop(hb) ==
    IF hb = "nil" THEN [panic |-> TRUE, hb |-> hb]
    ELSE [panic |-> FALSE, hb |-> "stopped"]

\* lines 509-514: stop() is called whenever the parameter map says keep-alive
\* is on at this moment, whether or not a heartbeat was started
stopHeartBeat(params, hb) ==
    IF ~isClientSessionKeepAliveEnabled(params)
    THEN [panic |-> FALSE, stopped |-> FALSE, hb |-> hb]
    ELSE [panic |-> heartbeatStop(hb).panic, stopped |-> ~heartbeatStop(hb).panic,
          hb |-> heartbeatStop(hb).hb]

\* lines 206-209: stopHeartBeat, then the session-close request goes out
Close(t) ==
    /\ Running
    /\ t \in Users(script)
    /\ pc[t] = "idle"
    /\ call' = [call EXCEPT ![t] = Call("Close", "conn", FALSE, 0)]
    /\ IF cfg = Nil \/ rest = Nil
       THEN Panic(t) /\ UNCHANGED <<rest, closes, hbStops>>
       ELSE LET s == stopHeartBeat(cfg.Params, rest.HeartBeat)
            IN  IF s.panic
                THEN Panic(t) /\ UNCHANGED <<rest, closes, hbStops>>
                ELSE /\ hbStops' = IF s.stopped THEN hbStops + 1 ELSE hbStops
                     /\ rest' = [rest EXCEPT !.HeartBeat = s.hb]
                     /\ closes' = closes + 1
                     /\ Goto(t, "closing")
                     /\ UNCHANGED panicked
    /\ UNCHANGED <<script, cursor, cfg, SequenceCounter, QueryID, SQLState, stmts,
                   local, ret, issued, posts>>

\* lines 209-214: FuncCloseSession returns (with or without an error), cleanup
CloseReturn(t) ==
    /\ Running
    /\ pc[t] = "closing"
    /\ \E err \in {NoErr, ErrTransport} :
        /\ SetLocal(t, [local[t] EXCEPT !.err = err])
        /\ cleanup
        /\ Return(t, Nil, NoErr)
    /\ UNCHANGED <<script, cursor, SequenceCounter, QueryID, SQLState, stmts, call,
                   Wire, panicked>>

(***************************************************************************)
(* The row cursor (snowflakeRows over its chunk downloaders)               *)
(***************************************************************************)
\* which runs have the caller read the rows it was given
Iterates(s) == s = "cursor"

\* start(): the inline rows are the first buffer; without inline rows the
\* first chunk is asked for at once
start(heap, at, read, last) ==
    [heap |-> heap, at |-> at,
     state |-> IF heap[at].RowSet # <<>> THEN "Buffered"
               ELSE IF heap[at].ChunkMetas # <<>> THEN "Fetching"
               ELSE "Started",
     CurrentChunk |-> heap[at].RowSet, CurrentIndex |-> 0, CurrentChunkIndex |-> 0,
     TotalRowIndex |-> heap[at].TotalRowIndex,
     read |-> read, last |-> last, after |-> 0, err |-> NoErr]

\* a chunk download completes: the chunk becomes the buffer, or the cursor fails
download(c) ==
    LET chunk == ChunkStore(c.heap[c.at].ChunkMetas[c.CurrentChunkIndex + 1])
    IN  IF chunk.fails THEN [c EXCEPT !.state = "Failed", !.err = ErrGet]
        ELSE [c EXCEPT !.state = "Buffered", !.CurrentChunk = chunk.rows,
                       !.CurrentIndex = 0, !.CurrentChunkIndex = @ + 1]

\* next(): the next row of the buffer; past the buffer the next chunk, past the
\* last chunk the linked downloader, past the last downloader end of data
next(c) ==
    IF c.state = "Failed" THEN [c EXCEPT !.last = "err", !.after = @ + 1]
    ELSE IF c.state = "Exhausted" THEN [c EXCEPT !.last = "eof", !.after = @ + 1]
    ELSE IF c.CurrentIndex < Len(c.CurrentChunk)
    THEN [c EXCEPT !.CurrentIndex = @ + 1, !.TotalRowIndex = @ + 1,
                   !.read = Append(@, c.CurrentChunk[c.CurrentIndex + 1]),
                   !.last = "row"]
    ELSE IF c.CurrentChunkIndex < Len(c.heap[c.at].ChunkMetas)
    THEN [c EXCEPT !.state = "Fetching"]
    ELSE IF c.heap[c.at].NextDownloader # 0
    THEN start(c.heap, c.heap[c.at].NextDownloader, c.read, c.last)
    ELSE [c EXCEPT !.state = "Exhausted", !.last = "eof"]

\* the caller starts reading the rows QueryContext returned
RowsOpen(t) ==
    /\ Running
    /\ Iterates(script)
    /\ pc[t] = "ret"
    /\ call[t].kind = "QueryContext"
    /\ ret[t].err = NoErr
    /\ cursor' = [cursor EXCEPT ![t] =
                     start(ret[t].val.heap, ret[t].val.ChunkDownloader, <<>>, "none")]
    /\ Goto(t, "rows")
    /\ UNCHANGED <<script, Conn, stmts, call, local, ret, Wire, panicked>>

RowsNext(t) ==
    /\ Running
    /\ pc[t] = "rows"
    /\ cursor[t].state # "Fetching"
    /\ cursor[t].after < MaxAfter
    /\ cursor' = [cursor EXCEPT ![t] = next(cursor[t])]
    /\ UNCHANGED <<script, Conn, stmts, pc, call, local, ret, Wire, panicked>>

RowsFetch(t) ==
    /\ Running
    /\ pc[t] = "rows"
    /\ cursor[t].state = "Fetching"
    /\ cursor' = [cursor EXCEPT ![t] = download(cursor[t])]
    /\ UNCHANGED <<script, Conn, stmts, pc, call, local, ret, Wire, panicked>>

\* the caller closes the rows and is free for its next call
RowsClose(t) ==
    /\ Running
    /\ pc[t] = "rows"
    /\ cursor' = [cursor EXCEPT ![t] = Nil]
    /\ pc' = [pc EXCEPT ![t] = "idle"]
    /\ call' = [call EXCEPT ![t] = NoCall]
    /\ local' = [local EXCEPT ![t] = NoLocal]
    /\ ret' = [ret EXCEPT ![t] = NoRet]
    /\ UNCHANGED <<script, Conn, stmts, Wire, panicked>>

\* the caller takes the result; the goroutine is free for its next call
Done(t) ==
    /\ Running
    /\ pc[t] = "ret"
    /\ pc' = [pc EXCEPT ![t] = "idle"]
    /\ call' = [call EXCEPT ![t] = NoCall]
    /\ local' = [local EXCEPT ![t] = NoLocal]
    /\ ret' = [ret EXCEPT ![t] = NoRet]
    /\ UNCHANGED <<script, cursor, Conn, stmts, Wire, panicked>>

Next ==
    \E t \in Goroutines :
        \/ ExecContext(t)
        \/ QueryContext(t)
        \/ Ping(t)
        \/ BeginTx(t)
        \/ PrepareContext(t)
        \/ execIncrement(t)
        \/ execPost(t)
        \/ execReceive(t)
        \/ execCommit(t)
        \/ execPopulate(t)
        \/ ExecContextDispatch(t)
        \/ ExecContextChild(t)
        \/ QueryContextDispatch(t)
        \/ QueryContextChild(t)
        \/ PingReturn(t)
        \/ BeginTxReturn(t)
        \/ Close(t)
        \/ CloseReturn(t)
        \/ RowsOpen(t)
        \/ RowsNext(t)
        \/ RowsFetch(t)
        \/ RowsClose(t)
        \/ Done(t)

Spec == Init /\ [][Next]_vars

(***************************************************************************)
(* Properties                                                              *)
(***************************************************************************)
Statements == {"ExecContext", "QueryContext"}

\* C1: the k-th value handed out as a sequence number is k (so the numbers
\* start at 1, grow by one and never repeat), the calls in flight hold pairwise
\* different numbers, and no number reaches the transport twice; in every
\* interleaving and whatever becomes of the calls.
C1_SequenceNumbers ==
    /\ \A k \in 1..Len(issued) : issued[k] = k
    /\ \A t, u \in Goroutines :
          (t # u /\ local[t].counter > 0 /\ local[u].counter > 0)
              => local[t].counter # local[u].counter
    /\ \A i, j \in 1..Len(posts) : i # j => posts[i] # posts[j]

C1_Witness ==
    \E t, u \in Goroutines :
        /\ t # u
        /\ local[u].counter = 1 /\ pc[u] = "build"
        /\ local[t].counter = 2 /\ pc[t] = "execret" /\ local[t].err # NoErr

Closed == cfg = Nil /\ rest = Nil

\* C2: when Close returns the connection holds neither cfg nor rest, it stays
\* that way, and every ExecContext, QueryContext, Ping, PrepareContext or BeginTx
\* call begun afterwards (on the connection or through a statement handle)
\* returns an error at once, with no request posted and no sequence number taken.
C2_ClosedConnection ==
    [][ /\ (\E t \in Goroutines : pc[t] = "closing" /\ pc'[t] = "ret") => Closed'
        /\ Closed => Closed'
        /\ \A t \in Goroutines :
              (/\ Closed
               /\ pc[t] = "idle" /\ pc'[t] # "idle"
               /\ call'[t].kind \in Statements \cup {"Ping", "PrepareContext", "BeginTx"})
              => /\ pc'[t] = "ret"
                 /\ ret'[t].val = Nil
                 /\ ret'[t].err # NoErr
                 /\ posts' = posts
                 /\ issued' = issued
                 /\ SequenceCounter' = SequenceCounter ]_vars

C2_Witness ==
    /\ Closed
    /\ closes = 1
    /\ \E t \in Goroutines :
        /\ pc[t] = "ret"
        /\ call[t].kind = "ExecContext" /\ call[t].via = "stmt"
        /\ ret[t] = Returned(Nil, ErrBadConn)

TransportFailed(t) == local[t].outcome # Nil /\ local[t].outcome.err # NoErr

\* C3: when FuncPostQuery returned an error, with or without a response object,
\* ExecContext and QueryContext return exactly that error value and no result,
\* after a single post and without touching the session.
C3_TransportErrorUnchanged ==
    [][ \A t \in Goroutines :
          (/\ call[t].kind \in Statements
           /\ pc[t] = "execret" /\ pc'[t] # "execret"
           /\ TransportFailed(t))
          => /\ pc'[t] = "ret"
             /\ ret'[t] = Returned(Nil, local[t].outcome.err)
             /\ local[t].nPosts = 1
             /\ Session' = Session ]_vars

\* the status codes of the vocabulary that are numbers, and the numbers they spell
NumberOf(code) ==
    CASE code = <<"0">> -> 0
      [] code = <<"1","2">> -> 12
      [] code = <<"-","5">> -> 0 - 5
      [] OTHER -> 0 - 1

Numeric(code) == code \in { <<"0">>, <<"1","2">>, <<"-","5">> }

ProtocolFailure(o) ==
    /\ o # Nil
    /\ o.err = NoErr
    /\ ~o.data.Success
    /\ (o.data.Code = <<>> \/ Numeric(o.data.Code))

ErrorOf(resp) ==
    SnowflakeError(NumberOf(resp.Code), resp.Data.SQLState, resp.Message,
                   resp.Data.QueryID)

\* C4: a response with success=false and a numeric or empty code makes exec, and
\* with it ExecContext, QueryContext, Ping and BeginTx, fail with the
\* SnowflakeError carrying the response's code (-1 for an empty code), SQL
\* state, message and query id; nothing else is returned and nothing panics.
C4_ProtocolFailure ==
    \A t \in Goroutines :
        ProtocolFailure(local[t].outcome)
        => /\ pc[t] \in {"execret", "ret"}
           /\ local[t].data = Nil
           /\ local[t].err = ErrorOf(local[t].outcome.data)
           /\ pc[t] = "ret" => ret[t] = Returned(Nil, ErrorOf(local[t].outcome.data))

C4_Witness ==
    \E t \in Goroutines :
        /\ pc[t] = "ret"
        /\ call[t].kind = "QueryContext"
        /\ ProtocolFailure(local[t].outcome)
        /\ local[t].outcome.data.Code = <<>>
        /\ ret[t].err.Number = 0 - 1
        /\ ret[t].err.QueryID = "q4"

IsSuccess(o) ==
    /\ o # Nil
    /\ o.err = NoErr
    /\ o.data.Success
    /\ (o.data.Code = <<>> \/ Numeric(o.data.Code))

\* the session parameter a returned name is stored under, and the text stored
KeyOf(name) ==
    IF name = KeepAliveUpper THEN sessionClientSessionKeepAlive
    ELSE <<"t","i","m","e","o","u","t">>

TextOf(value) ==
    CASE value = BoolParam(TRUE) -> <<"t","r","u","e">>
      [] value = BoolParam(FALSE) -> <<"f","a","l","s","e">>
      [] value = Float64Param(40) -> <<"4","0">>
      [] value = Int64Param(0 - 3) -> <<"-","3">>
      [] value.type = "string" -> value.str
      [] OTHER -> <<>>

\* params merged with a returned list: the last entry for a key wins, every
\* other key keeps its value
Merged(after, before, parameters) ==
    LET keys == { KeyOf(parameters[i].Name) : i \in 1..Len(parameters) }
        lastOf(k) == CHOOSE i \in 1..Len(parameters) :
                        /\ KeyOf(parameters[i].Name) = k
                        /\ \A j \in (i + 1)..Len(parameters) :
                              KeyOf(parameters[j].Name) # k
    IN  /\ DOMAIN after = (DOMAIN before) \cup keys
        /\ \A k \in keys : after[k] = TextOf(parameters[lastOf(k)].Value)
        /\ \A k \in (DOMAIN before) \ keys : after[k] = before[k]

NamesOf(c) == <<c.Database, c.Schema, c.Role, c.Warehouse>>

FinalNames(d) ==
    <<d.FinalDatabaseName, d.FinalSchemaName, d.FinalRoleName, d.FinalWarehouseName>>

\* C5: the session (the four names, the last query id and SQL state, the
\* parameter map) is written only by the two closing steps of an exec whose
\* response is a success: the first sets the names, query id and SQL state to
\* the response's values, the second merges the returned parameters into the
\* map. No step of a failing exec changes any of it, and with one goroutine
\* the session seen when a successful exec returns is the response's.
C5_SessionFrame ==
    /\ [](\A t \in Goroutines :
            /\ pc[t] \in {"commit", "populate"} => IsSuccess(local[t].outcome)
            /\ (script = "full" /\ pc[t] = "execret" /\ local[t].err = NoErr)
               => /\ NamesOf(cfg) = FinalNames(local[t].data.Data)
                  /\ QueryID = local[t].data.Data.QueryID
                  /\ SQLState = local[t].data.Data.SQLState)
    /\ [][ /\ Session' # Session
              => \E t \in Goroutines :
                    \/ pc[t] = "commit" /\ pc'[t] = "populate"
                    \/ pc[t] = "populate" /\ pc'[t] = "execret"
                    \/ pc[t] = "closing" /\ pc'[t] = "ret"
           /\ \A t \in Goroutines :
                 (pc[t] = "commit" /\ pc'[t] = "populate")
                 => /\ NamesOf(cfg') = FinalNames(local[t].outcome.data.Data)
                    /\ QueryID' = local[t].outcome.data.Data.QueryID
                    /\ SQLState' = local[t].outcome.data.Data.SQLState
                    /\ cfg'.Params = cfg.Params
           /\ \A t \in Goroutines :
                 (pc[t] = "populate" /\ pc'[t] = "execret")
                 => /\ QueryID' = QueryID
                    /\ SQLState' = SQLState
                    /\ cfg = Nil => cfg' = Nil
                    /\ cfg # Nil
                       => /\ NamesOf(cfg') = NamesOf(cfg)
                          /\ Merged(cfg'.Params, cfg.Params,
                                    local[t].outcome.data.Data.Parameters) ]_vars

C5_Witness ==
    /\ script = "full"
    /\ pc[1] = "execret"
    /\ local[1].err = NoErr
    /\ local[1].counter = 2
    /\ NamesOf(cfg) = NamesOf(Names2)
    /\ QueryID = "q2"
    /\ DOMAIN cfg.Params = {KeyOf(TimeoutName), sessionClientSessionKeepAlive}
    /\ cfg.Params[KeyOf(TimeoutName)] = <<>>
    /\ cfg.Params[sessionClientSessionKeepAlive] = <<"t","r","u","e">>

FetchFailed(id) == ChildStore(id).err # NoErr

ChildReportsFailure(id) == ChildStore(id).err = NoErr /\ ~ChildStore(id).data.Success

\* C6: a child whose fetch fails (get error or undecodable body) is the last
\* child fetched, and the ExecContext or QueryContext call returns an error and
\* no result or cursor.
C6_ChildFetchFailureAborts ==
    \A t \in Goroutines :
        call[t].kind \in Statements
        => \A i \in 1..Len(local[t].fetched) :
              FetchFailed(local[t].fetched[i])
              => /\ i = Len(local[t].fetched)
                 /\ pc[t] = "ret"
                 /\ ret[t].val = Nil
                 /\ ret[t].err # NoErr

\* C7: an ExecContext or QueryContext call that fetched a child whose response
\* reports success=false returns an error and neither an affected-row total nor
\* a cursor.
C7_NoPartialSuccess ==
    \A t \in Goroutines :
        (/\ call[t].kind \in Statements
         /\ pc[t] = "ret"
         /\ \E i \in 1..Len(local[t].fetched) : ChildReportsFailure(local[t].fetched[i]))
        => /\ ret[t].val = Nil
           /\ ret[t].err # NoErr

\* the child ids a multi-statement response lists
ListedIds(data) == CHOOSE ids \in ChildLists : JoinComma(ids) = data.ResultIDs

\* the downloaders reached from one by following NextDownloader
RECURSIVE Chain(_, _, _)
Chain(heap, at, fuel) ==
    IF at = 0 \/ fuel = 0 THEN <<>>
    ELSE <<at>> \o Chain(heap, heap[at].NextDownloader, fuel - 1)

IsPrefix(p, q) == Len(p) <= Len(q) /\ \A i \in 1..Len(p) : p[i] = q[i]

\* C8: the children of a multi-statement response are fetched one at a time in
\* the order the response lists them, and the cursor QueryContext returns is
\* that of the first child, linked to the second and so on to the last: as many
\* downloaders as children, each holding its child's rows, no downloader twice,
\* the last one without a successor.
C8_ChildOrder ==
    /\ [](\A t \in Goroutines :
            (call[t].kind \in Statements /\ local[t].path = "multi")
            => LET ids == ListedIds(local[t].outcome.data.Data)
               IN  /\ IsPrefix(local[t].fetched, ids)
                   /\ (/\ call[t].kind = "QueryContext"
                       /\ pc[t] = "ret" /\ ret[t].err = NoErr /\ ids # <<>>)
                      => LET heap == ret[t].val.heap
                             chain == Chain(heap, ret[t].val.ChunkDownloader,
                                            Len(heap) + 1)
                         IN  /\ Len(chain) = Len(ids)
                             /\ \A i, j \in 1..Len(chain) :
                                   i # j => chain[i] # chain[j]
                             /\ heap[chain[Len(chain)]].NextDownloader = 0
                             /\ \A i \in 1..Len(chain) :
                                   /\ heap[chain[i]].RowSet =
                                         ChildStore(ids[i]).data.Data.RowSet
                                   /\ heap[chain[i]].CellCount =
                                         Len(ChildStore(ids[i]).data.Data.RowType))
    /\ [][ \A t \in Goroutines :
             \/ local'[t].fetched = local[t].fetched
             \/ local'[t].fetched = <<>>
             \/ /\ Len(local'[t].fetched) = Len(local[t].fetched) + 1
                /\ IsPrefix(local[t].fetched, local'[t].fetched) ]_vars

C8_Witness ==
    \E t \in Goroutines :
        /\ call[t].kind = "QueryContext"
        /\ pc[t] = "ret"
        /\ ret[t].err = NoErr
        /\ local[t].fetched = << <<"b">>, <<"a">> >>
        /\ Len(ret[t].val.heap) = 3
        /\ ret[t].val.ChunkDownloader = 2

\* C9: ExecContext handles a successful response whose statement-type id is the
\* multi-statement sentinel as multi-statement when its first column is named
\* "multiple statement execution" and as DML otherwise, never as DDL.
C9_SentinelDispatch ==
    [][ \A t \in Goroutines :
          (/\ call[t].kind = "ExecContext"
           /\ pc[t] = "execret" /\ pc'[t] # "execret"
           /\ local[t].err = NoErr
           /\ local[t].data.Data.StatementTypeID = statementTypeIDMulti
           /\ local[t].data.Data.RowType # <<>>)
          => local'[t].path =
                IF local[t].data.Data.RowType[1].Name = "multiple statement execution"
                THEN "multi" ELSE "dml" ]_vars

InDmlBand(id) == 12288 <= id /\ id <= 13568

\* C10: for every statement-type id and column schema ExecContext takes one of
\* the three paths, and it takes the DML path exactly when the id lies in the
\* DML band.
C10_ClassificationPartition ==
    [][ \A t \in Goroutines :
          (/\ call[t].kind = "ExecContext"
           /\ pc[t] = "execret" /\ pc'[t] # "execret"
           /\ local[t].err = NoErr)
          => /\ local'[t].path \in {"dml", "multi", "ddl"}
             /\ local'[t].path = "dml"
                <=> InDmlBand(local[t].data.Data.StatementTypeID) ]_vars

\* the row values of the vocabulary that spell integers, and the integers
IntegerOf(text) ==
    CASE text = <<"1">> -> 1
      [] text = <<"2">> -> 2
      [] text = <<"3">> -> 3
      [] OTHER -> 0

IsInteger(text) == text \in { <<"1">>, <<"2">>, <<"3">> }

RECURSIVE RowSum(_)
RowSum(row) == IF row = <<>> THEN 0 ELSE IntegerOf(Head(row)) + RowSum(Tail(row))

\* a row set with a first row that has one value per column of the schema
HasFirstRow(d) == d.RowSet # <<>> /\ Len(d.RowSet[1]) = Len(d.RowType)

ChildSucceeds(id) == id \in { <<"a">>, <<"b">>, <<"c">> }

Occurrences(ids, id) == Cardinality({ i \in 1..Len(ids) : ids[i] = id })

\* C12: a multi-statement ExecContext whose listed children all succeed returns
\* the sum of the affected rows of its DML children, the other children adding
\* nothing; the sum depends only on how often each child is listed, not on the
\* order of the list.
C12_MultiStatementSum ==
    \A t \in Goroutines :
        (/\ call[t].kind = "ExecContext"
         /\ local[t].path = "multi"
         /\ pc[t] = "ret"
         /\ \A i \in 1..Len(local[t].childResults) :
               ChildSucceeds(local[t].childResults[i].id))
        => LET ids == ListedIds(local[t].outcome.data.Data)
           IN  /\ local[t].fetched = ids
               /\ ret[t].err = NoErr
               /\ ret[t].val.kind = "snowflakeResult"
               /\ ret[t].val.affectedRows =
                     1 * Occurrences(ids, <<"a">>) + 5 * Occurrences(ids, <<"b">>)

C12_Witness ==
    \E t \in Goroutines :
        /\ call[t].kind = "ExecContext"
        /\ pc[t] = "ret"
        /\ local[t].fetched = << <<"b">>, <<"c">> >>
        /\ ret[t].val.affectedRows = 5

\* C13: a BeginTx call with ReadOnly set or with an isolation level other than
\* the default returns at once, in whatever state the connection is (fresh,
\* used, closed): no transaction, a SnowflakeError with the feature-not-supported
\* SQL state (the read-only number if ReadOnly is set, else the isolation
\* number), nothing posted or closed, no sequence number taken, the session and
\* the transport reference as they were.
C13_BeginTxRejected ==
    [][ \A t \in Goroutines :
          (/\ pc[t] = "idle" /\ pc'[t] # "idle"
           /\ call'[t].kind = "BeginTx"
           /\ (call'[t].ReadOnly \/ call'[t].Isolation # 0))
          => /\ pc'[t] = "ret"
             /\ ret'[t].val = Nil
             /\ ret'[t].err.kind = "SnowflakeError"
             /\ ret'[t].err.SQLState = "SQLStateFeatureNotSupported"
             /\ ret'[t].err.Number = IF call'[t].ReadOnly
                                     THEN "ErrNoReadOnlyTransaction"
                                     ELSE "ErrNoDefaultTransactionIsolationLevel"
             /\ local'[t] = NoLocal
             /\ <<posts, issued, closes>>' = <<posts, issued, closes>>
             /\ SequenceCounter' = SequenceCounter
             /\ Session' = Session
             /\ rest' = rest ]_vars

C13_Witness ==
    \E t \in Goroutines :
        /\ pc[t] = "ret"
        /\ call[t].kind = "BeginTx"
        /\ ~call[t].ReadOnly /\ call[t].Isolation = 6
        /\ ret[t].val = Nil
        /\ ret[t].err.kind = "SnowflakeError"
        /\ SequenceCounter = 1 /\ posts = <<1>>
        /\ QueryID = "q2"

C15_HeartbeatStoppedOnce ==
    /\ [](script = "full"
          => /\ hbStops <= 1
             /\ closes >= 1 => (rest = Nil \/ rest.HeartBeat # "running"))
    /\ [][ \A t \in Goroutines :
             (/\ script = "full"
              /\ pc[t] = "idle" /\ pc'[t] # "idle"
              /\ call'[t].kind = "Close"
              /\ ~Closed)
             => /\ pc'[t] = "closing"
                /\ closes' = closes + 1
                /\ hbStops' = IF rest.HeartBeat = "running"
                              THEN hbStops + 1 ELSE hbStops ]_vars

Checked == {"ExecContext", "QueryContext", "Ping"}

\* a context option that is absent or holds a bool, and its value
IsFlag(v) == v = Nil \/ v.type = "bool"

FlagOf(v) == IF v = Nil THEN FALSE ELSE v.b

\* C16: the request ExecContext, QueryContext and Ping post is asynchronous
\* and internal exactly as the context's options say (neither when the option
\* is absent) and has a parameters map exactly when the context carries a
\* multi-statement count, so a context without options gives a synchronous,
\* non-internal request without parameters; a call whose asynchronous or
\* internal option is not a bool never gets as far as taking a sequence number,
\* and returns its error with nothing posted and the counter as it was.
C16_RequestOptions ==
    /\ [](\A t \in Goroutines :
            (call[t].kind \in Checked /\ pc[t] \in {"exec", "build"})
            => IsFlag(local[t].ctx.AsyncMode) /\ IsFlag(local[t].ctx.IsInternal))
    /\ [][ \A t \in Goroutines :
             /\ (/\ call[t].kind \in Checked
                 /\ pc[t] = "build" /\ pc'[t] = "posted")
                => LET ctx == local[t].ctx
                       req == local'[t].req
                   IN  /\ req.AsyncExec = FlagOf(ctx.AsyncMode)
                       /\ req.IsInternal = FlagOf(ctx.IsInternal)
                       /\ (req.Parameters # Nil) <=> (ctx.MultiStatementCount # Nil)
                       /\ ctx = Background
                          => /\ ~req.AsyncExec
                             /\ ~req.IsInternal
                             /\ req.Parameters = Nil
             /\ (/\ call'[t].kind \in Checked
                 /\ pc[t] = "idle" /\ pc'[t] = "ret"
                 /\ ret'[t].err = ErrCast)
                => /\ posts' = posts
                   /\ issued' = issued
                   /\ SequenceCounter' = SequenceCounter ]_vars

C16_Witness ==
    \E t \in Goroutines :
        /\ call[t].kind = "Ping"
        /\ pc[t] = "posted"
        /\ local[t].req.Parameters = [MULTI_STATEMENT_COUNT |-> CtxValue("int", FALSE, 2)]
        /\ ~local[t].req.AsyncExec
        /\ ~local[t].req.IsInternal
        /\ local[t].req.SequenceID = 2

\* the bound values that are not mode markers, in input order
Bound(args) == SelectSeq(args, LAMBDA v : v.k # "typeMarker")

\* where the j-th such value stands in the input
PosOf(args, j) ==
    CHOOSE i \in 1..Len(args) :
        /\ args[i].k # "typeMarker"
        /\ Cardinality({ h \in 1..i : args[h].k # "typeMarker" }) = j

\* the mode in force at position i: that of the nearest marker before it
ModeAt(args, i) ==
    LET ms == { h \in 1..(i - 1) : args[h].k = "typeMarker" }
    IN  IF ms = {} THEN "TIMESTAMP_NTZ"
        ELSE args[CHOOSE h \in ms : \A g \in ms : g <= h].mode

SlotKey(j) ==
    CASE j = 1 -> <<"1">>
      [] j = 2 -> <<"2">>
      [] j = 3 -> <<"3">>
      [] OTHER -> <<"4">>

NumberText(n) ==
    CASE n = 0 -> <<"0">>
      [] n = 5 -> <<"5">>
      [] OTHER -> <<"7">>

\* C18: the bindings of a posted request hold the values that are not mode
\* markers under the keys "1" .. "N" in input order (N their number), each
\* with its text and its type tag, a time value being tagged with the mode of
\* the nearest marker before it in the same request and with TIMESTAMP_NTZ if
\* there is none, whatever earlier requests did; a request whose values
\* include one that cannot be encoded is never posted and exec returns an
\* error.
C18_BindingSlots ==
    [][ \A t \in Goroutines :
          (pc[t] = "build" /\ pc'[t] # "build")
          => LET args == local[t].args
                 n == Len(Bound(args))
             IN  IF \E i \in 1..Len(args) : args[i].k = "unsupported"
                 THEN /\ pc'[t] = "execret"
                      /\ local'[t].err # NoErr
                      /\ local'[t].data = Nil
                      /\ posts' = posts
                 ELSE pc'[t] = "posted"
                      => LET b == local'[t].req.Bindings
                         IN  IF args = <<>> THEN b = Nil
                             ELSE /\ DOMAIN b = { SlotKey(j) : j \in 1..n }
                                  /\ \A j \in 1..n :
                                        LET i == PosOf(args, j)
                                        IN  /\ b[SlotKey(j)].Value = NumberText(args[i].n)
                                            /\ b[SlotKey(j)].Type =
                                                  IF args[i].k = "int64" THEN "FIXED"
                                                  ELSE ModeAt(args, i) ]_vars

C18_Witness ==
    \E t \in Goroutines :
        /\ pc[t] = "posted"
        /\ local[t].counter = 2
        /\ DOMAIN local[t].req.Bindings = { <<"1">>, <<"2">>, <<"3">> }
        /\ local[t].req.Bindings[<<"1">>] = execBindParameter("TIMESTAMP_NTZ", <<"7">>)
        /\ local[t].req.Bindings[<<"2">>] = execBindParameter("FIXED", <<"5">>)
        /\ local[t].req.Bindings[<<"3">>] = execBindParameter("TIMESTAMP_LTZ", <<"7">>)

\* C19: requests reach FuncPostQuery in the order of their sequence numbers:
\* of any two posted requests the one posted first has the smaller number.
C19_PostsInSequenceOrder ==
    \A i, j \in 1..Len(posts) : i < j => posts[i] < posts[j]

\* the next step of goroutine t writes the session parameter map (line 487),
\* writes the other session fields (lines 159-164), reads the map (lines 123
\* and 551)
WritesParams(t) == pc[t] = "populate" /\ local[t].data.Data.Parameters # <<>>

WritesSession(t) == pc[t] = "commit"

ReadsParams(t) == pc[t] \in {"build", "children"}

\* C20: two goroutines are never both about to access the session with one
\* of them writing: no write of the parameter map is enabled together with
\* another goroutine's write or read of the map, and no two writes of the
\* session fields are enabled together.
C20_SessionRaceFree ==
    \A t, u \in Goroutines :
        t # u
        => /\ ~(WritesParams(t) /\ (WritesParams(u) \/ ReadsParams(u)))
           /\ ~(WritesSession(t) /\ WritesSession(u))

\* the rows the server holds for a result: the inline rows, then the rows of
\* each chunk in the order the response lists the chunks
RowsHeld(d) == d.RowSet \o ChunkRows(d.Chunks)

RECURSIVE RowsHeldBy(_)
RowsHeldBy(ids) ==
    IF ids = <<>> THEN <<>>
    ELSE RowsHeld(ChildStore(Head(ids)).data.Data) \o RowsHeldBy(Tail(ids))

\* what a cursor over the response is to yield: the result's rows, or for a
\* multi-statement response with children the rows of the children in turn
Expected(d) ==
    IF d.ResultIDs = <<>> THEN RowsHeld(d) ELSE RowsHeldBy(ListedIds(d))

\* C17: the rows read from the cursor QueryContext returned are at every
\* moment a prefix of the inline rows followed by the rows of the chunks in
\* chunk order, the number of rows read from a downloader never exceeds the
\* total declared for it, and at exhaustion the rows read are exactly all of
\* them and their number is the declared total; an exhausted cursor stays
\* exhausted and answers every further next() with end of data and no error,
\* yielding nothing more.
C17_CursorRoundTrip ==
    /\ [](\A t \in Goroutines :
            cursor[t] # Nil
            => LET c == cursor[t]
                   d == local[t].outcome.data.Data
               IN  /\ IsPrefix(c.read, Expected(d))
                   /\ c.TotalRowIndex + 1 <= c.heap[c.at].Total
                   /\ d.ResultIDs = <<>> => Len(c.read) <= d.Total
                   /\ c.state = "Exhausted"
                      => /\ c.read = Expected(d)
                         /\ c.TotalRowIndex + 1 = c.heap[c.at].Total
                         /\ d.ResultIDs = <<>> => Len(c.read) = d.Total
                         /\ c.last = "eof"
                         /\ c.err = NoErr)
    /\ [][ \A t \in Goroutines :
             (/\ cursor[t] # Nil /\ cursor'[t] # Nil
              /\ cursor[t].state = "Exhausted")
             => /\ cursor'[t].state = "Exhausted"
                /\ cursor'[t].read = cursor[t].read
                /\ cursor'[t].last = "eof"
                /\ cursor'[t].err = NoErr ]_vars

C17_Witness ==
    \E t \in Goroutines :
        /\ cursor[t] # Nil
        /\ cursor[t].state = "Exhausted"
        /\ cursor[t].after = 2
        /\ local[t].outcome.data.Data.Chunks = <<"c1", "c2">>
        /\ cursor[t].read = << <<<<"1">>>>, <<<<"2">>>>, <<<<"3">>>>, <<<<"4">>>>, <<<<"5">>>> >>

\* C21: with one goroutine using the connection, Close on a connection that
\* is already closed returns an error and nothing else happens: no heartbeat
\* stop, no session-close call, no panic on the released cfg and rest.
C21_CloseAfterClose ==
    [][ \A t \in Goroutines :
          (/\ Users(script) = {t}
           /\ pc[t] = "idle" /\ pc'[t] # "idle"
           /\ call'[t].kind = "Close"
           /\ Closed)
          => /\ pc'[t] = "ret"
             /\ ret'[t].val = Nil
             /\ ret'[t].err # NoErr
             /\ ~panicked'
             /\ closes' = closes
             /\ hbStops' = hbStops
             /\ Closed' ]_vars

\* C22: the query id in the result ExecContext returns and in the rows
\* QueryContext returns is the query id of the response to that statement,
\* whatever other statements run on the connection at the same time.
C22_OwnQueryID ==
    \A t \in Goroutines :
        (/\ call[t].kind \in Statements
         /\ pc[t] = "ret"
         /\ ret[t].err = NoErr
         /\ ret[t].val.kind \in {"snowflakeResult", "snowflakeRows"})
        => ret[t].val.queryID = local[t].outcome.data.Data.QueryID

\* C23: with one goroutine using the connection, ExecContext and QueryContext
\* handle every successful response without a run-time panic: the step that
\* classifies the response ends in a return or goes on to the children, also
\* for a DML response with no first row or a first row shorter than the
\* schema, a sentinel response with an empty schema and a child-type list
\* shorter than the child-id list.
C23_NoOutOfRange ==
    [][ \A t \in Goroutines :
          (/\ Users(script) = {t}
           /\ call[t].kind \in Statements
           /\ pc[t] = "execret" /\ pc'[t] # "execret"
           /\ local[t].err = NoErr)
          => /\ pc'[t] \in {"ret", "children"}
             /\ ~panicked' ]_vars

====
